---------------------------- MODULE Spec2Model ----------------------------
(***************************************************************************)
(* State-machine model of the storefront backend (src/main.py with the     *)
(* record shapes of src/schemas.py).                                       *)
(*                                                                         *)
(* The document store is modelled as one sequence of documents per         *)
(* collection, in insertion order.  Every request handler is one action;   *)
(* register is also given as two steps (its find_one and its insert) for   *)
(* the interleavings of concurrently handled requests.                     *)
(*                                                                         *)
(* Representation:                                                         *)
(*   - an ObjectId is a natural number, str(ObjectId) its 24-digit hex     *)
(*     string (Hex), ObjectId(str) the partial inverse (ParseObjectId);    *)
(*   - an Optional value is a set with at most one element ({} is None);   *)
(*   - an e-mail address is a sequence of characters, so that EmailStr's   *)
(*     normalisation is computed, not assumed;                             *)
(*   - prices are integers (the seeded prices 49.0 + i are integral);       *)
(*   - the store is connected (db is not None) throughout.                 *)
(***************************************************************************)
EXTENDS Integers, Sequences, FiniteSets, TLC

VARIABLES user, category, product, cartitem, order,
          nextId, req, resp, pend

vars == <<user, category, product, cartitem, order,
          nextId, req, resp, pend>>

-----------------------------------------------------------------------------
(* Bounds of the model *)

MaxUsers == 3
MaxWorkers == 2
MaxProducts == 2
MaxCategories == 1
MaxCartAdds == 2
MaxOrders == 1
MaxPage == 3

-----------------------------------------------------------------------------
(* Generic helpers *)

Range(s) == {s[i] : i \in 1..Len(s)}

None == {}

Some(v) == {v}

\* The value of a present Optional.
The(o) == CHOOSE v \in o : TRUE

\* F(v) with v evaluated once.
With(v, F(_)) == CHOOSE r \in {F(x) : x \in {v}} : TRUE

RECURSIVE SelectIdx(_, _, _)
\* The indices from..n that are in keep, in increasing order.
SelectIdx(keep, from, n) ==
    IF from > n THEN <<>>
    ELSE IF from \in keep THEN <<from>> \o SelectIdx(keep, from + 1, n)
    ELSE SelectIdx(keep, from + 1, n)

\* The documents of collection coll that satisfy Pred, in store order.
Filter(coll, Pred(_)) ==
    LET idx == SelectIdx({i \in 1..Len(coll) : Pred(coll[i])}, 1, Len(coll))
    IN  [i \in 1..Len(idx) |-> coll[idx[i]]]

-----------------------------------------------------------------------------
(* ObjectId and its string form *)

HexDigits == <<"0", "1", "2", "3", "4", "5", "6", "7",
               "8", "9", "a", "b", "c", "d", "e", "f">>

\* The ObjectIds of the model: the store hands out 1, 2, ... in order.
ObjectIds == 0..255

\* str(ObjectId): 24 hexadecimal digits.
Hex(oid) ==
    "0000000000000000000000" \o HexDigits[(oid \div 16) + 1]
                             \o HexDigits[(oid % 16) + 1]

\* ObjectId.is_valid(s) for a string s.
IsValidObjectId(s) == \E oid \in ObjectIds : Hex(oid) = s

\* ObjectId(s) for a valid s; ObjectId(s) raises InvalidId otherwise.
ParseObjectId(s) == CHOOSE oid \in ObjectIds : Hex(oid) = s

-----------------------------------------------------------------------------
(* Responses *)

Ok(body) == [status |-> 200, body |-> body]

\* raise HTTPException(status_code=code, detail=detail)
HTTPException(code, detail) == [status |-> code, body |-> [detail |-> detail]]

\* An exception no handler catches: the framework answers 500.
Unhandled(what) == [status |-> 500, body |-> [detail |-> what]]

\* The fields that hold a datetime.
DatetimeFields == {"created_at", "updated_at"}

\* datetime.isoformat() of the instant t seconds after the epoch (t < 10).
IsoFormat(t) == "1970-01-01T00:00:0" \o ToString(t)

\* serialize_doc: "_id" replaced by the string "id", datetimes by their
\* ISO-8601 strings.
serialize_doc(doc) ==
    [k \in (DOMAIN doc \ {"_id"}) \cup {"id"} |->
        IF k = "id" THEN Hex(doc._id)
        ELSE IF k \in DatetimeFields THEN IsoFormat(doc[k])
        ELSE doc[k]]

\* collection.insert_one(data): the store assigns the next ObjectId.
insert_one(coll, data) == Append(coll, [_id |-> nextId] @@ data)

\* database.create_document(collection_name, data): inserts the validated
\* record and returns the new identifier as a string.
create_document(coll, data) ==
    [coll |-> insert_one(coll, data), id |-> Hex(nextId)]

\* collection.find_one(filter) with an equality filter: the first match.
find_one(coll, filt) ==
    LET hits == Filter(coll, LAMBDA d : \A k \in DOMAIN filt :
                                k \in DOMAIN d /\ d[k] = filt[k])
    IN  IF hits = <<>> THEN None ELSE Some(hits[1])

-----------------------------------------------------------------------------
(* schemas.User and pydantic's EmailStr *)

Upper == <<"A", "B", "C", "S", "X">>
Lower == <<"a", "b", "c", "s", "x">>

\* str.lower() on one character of the model's alphabet.
ToLower(c) ==
    IF \E i \in 1..Len(Upper) : Upper[i] = c
    THEN Lower[CHOOSE i \in 1..Len(Upper) : Upper[i] = c]
    ELSE c

AtPositions(e) == {i \in 1..Len(e) : e[i] = "@"}

\* EmailStr accepts local@domain only.
EmailIsValid(e) ==
    /\ Cardinality(AtPositions(e)) = 1
    /\ \A i \in AtPositions(e) : 1 < i /\ i < Len(e)

\* EmailStr's value: the normalised address, the domain part in lower case.
NormalizeEmail(e) ==
    LET at == CHOOSE i \in AtPositions(e) : TRUE
    IN  [i \in 1..Len(e) |-> IF i > at THEN ToLower(e[i]) ELSE e[i]]

\* User(name=..., email=..., password_hash=...) after validation.
User(name, email, password_hash) ==
    [name |-> name, email |-> NormalizeEmail(email),
     password_hash |-> password_hash, address |-> None,
     is_active |-> TRUE, role |-> "user"]

-----------------------------------------------------------------------------
(* Inputs *)

Names == {"Ann"}

Emails == {<<"a", "@", "s">>, <<"a", "@", "S">>, <<"b", "@", "s">>, <<"a", "s">>}

Passwords == {"pw1", "pw2"}

RegisterIn == [name : Names, email : Emails, password : Passwords]

LoginIn == [email : Emails, password : Passwords]

Workers == 1..MaxWorkers

Idle == [pc |-> "idle"]

-----------------------------------------------------------------------------
Init ==
    /\ user = <<>>
    /\ category = <<>>
    /\ product = <<>>
    /\ cartitem = <<>>
    /\ order = <<>>
    /\ nextId = 1
    /\ req = [op |-> "none"]
    /\ resp = [status |-> 0, body |-> [detail |-> "none"]]
    /\ pend = [w \in Workers |-> Idle]

-----------------------------------------------------------------------------
(* Auth *)

\* main.py 88: the existence check of register.
RegisterExisting(payload) == find_one(user, [email |-> payload.email])

\* main.py 91-93: build the User, store it, answer.
RegisterCreated(payload) ==
    IF ~EmailIsValid(payload.email)
    THEN [user |-> user, nextId |-> nextId,
          resp |-> Unhandled("ValidationError")]
    ELSE LET u == User(payload.name, payload.email, payload.password)
             made == create_document(user, u)
         IN  [user |-> made.coll, nextId |-> nextId + 1,
              resp |-> Ok([id |-> made.id, name |-> u.name,
                           email |-> u.email, role |-> u.role])]

\* Whether register(payload) reaches its insert in the current state.
RegisterInserts(payload) ==
    RegisterExisting(payload) = None /\ EmailIsValid(payload.email)

\* POST /auth/register, handled with no other request in between.
register(payload) ==
    /\ RegisterInserts(payload) => Len(user) < MaxUsers
    /\ req' = [op |-> "register", payload |-> payload]
    /\ IF RegisterExisting(payload) # None
       THEN /\ resp' = HTTPException(400, "Email already registered")
            /\ UNCHANGED <<user, nextId>>
       ELSE LET out == RegisterCreated(payload)
            IN  /\ user' = out.user
                /\ nextId' = out.nextId
                /\ resp' = out.resp
    /\ UNCHANGED <<category, product, cartitem, order, pend>>

\* POST /auth/login
login(payload) ==
    LET found == find_one(user, [email |-> payload.email,
                                 password_hash |-> payload.password])
    IN  /\ req' = [op |-> "login", payload |-> payload]
        /\ resp' = IF found = None
                   THEN HTTPException(401, "Invalid credentials")
                   ELSE LET u == serialize_doc(The(found))
                        IN  Ok([id |-> u.id, name |-> u.name,
                                email |-> u.email, role |-> u.role])
        /\ UNCHANGED <<user, category, product, cartitem, order,
                       nextId, pend>>

NextAuth ==
    \/ \E payload \in RegisterIn : register(payload)
    \/ \E payload \in LoginIn : login(payload)

SpecAuth == Init /\ [][NextAuth]_vars

-----------------------------------------------------------------------------
(* Catalog: categories, products, seeding *)

\* Program constants
DefaultLimit == 12
MaxLimit == 60
SeedCount == 24
SeedBasePrice == 49
SeedBaseRatingCount == 120

\* A request body FastAPI rejects before the handler runs.
ValidationError == [status |-> 422, body |-> [detail |-> "validation error"]]

\* schemas.Product: price >= 0 (images, rating and features are carried by
\* the store untouched and read by no handler; they are left out).
ProductIsValid(prod) == prod.price >= 0

\* schemas.Product with its defaults applied.
Product(prod) ==
    [title |-> prod.title, description |-> None, price |-> prod.price,
     category |-> prod.category, rating_count |-> 0, in_stock |-> TRUE]

ProductIn ==
    {[title |-> "Gift Card", price |-> 60, category |-> "cards"],
     [title |-> "Steel Mug", price |-> 40, category |-> "accessories"],
     [title |-> "Broken", price |-> -1, category |-> "cards"]}

CategoryIn == {[name |-> "Gifts", slug |-> "gifts"]}

\* schemas.Category with its defaults applied.
Category(cat) ==
    [name |-> cat.name, slug |-> cat.slug, icon |-> None, description |-> None]

\* POST /products
create_product(prod) ==
    /\ req' = [op |-> "create_product", payload |-> prod]
    /\ IF ~ProductIsValid(prod)
       THEN /\ resp' = ValidationError
            /\ UNCHANGED <<product, nextId>>
       ELSE /\ Len(Filter(product, LAMBDA d : d.rating_count = 0)) < MaxProducts
            /\ LET made == create_document(product, Product(prod))
               IN  /\ product' = made.coll
                   /\ resp' = Ok([id |-> made.id])
            /\ nextId' = nextId + 1
    /\ UNCHANGED <<user, category, cartitem, order, pend>>

\* POST /categories
create_category(cat) ==
    /\ Len(Filter(category, LAMBDA d : d.icon = None)) < MaxCategories
    /\ req' = [op |-> "create_category", payload |-> cat]
    /\ LET made == create_document(category, Category(cat))
       IN  /\ category' = made.coll
           /\ resp' = Ok([id |-> made.id])
    /\ nextId' = nextId + 1
    /\ UNCHANGED <<user, product, cartitem, order, pend>>

\* main.py 250-254
SeedCategories ==
    <<[name |-> "Cards", slug |-> "cards", icon |-> Some("CreditCard"),
       description |-> Some("Payment cards and fintech")],
      [name |-> "Accessories", slug |-> "accessories", icon |-> Some("Star"),
       description |-> Some("Premium accessories")],
      [name |-> "Software", slug |-> "software", icon |-> Some("Settings"),
       description |-> Some("Apps and tools")]>>

SeedTitle(i) == "Premium Card " \o ToString(i)

SeedDescription == "Elegant glassmorphic fintech card with premium perks."

\* main.py 256-271: the generated batch, i = 1..24.
SeedProducts ==
    [i \in 1..SeedCount |->
        [title |-> SeedTitle(i), description |-> Some(SeedDescription),
         price |-> SeedBasePrice + i, category |-> "cards",
         rating_count |-> SeedBaseRatingCount + i, in_stock |-> TRUE]]

\* collection.insert_many(docs): consecutive ObjectIds from first.
insert_many(coll, docs, first) ==
    coll \o [i \in 1..Len(docs) |-> [_id |-> first + i - 1] @@ docs[i]]

\* seed_data with its existence check dropped.
SeedNeeded_Always == TRUE

\* main.py 248: the existence check of seed_data.
SeedNeeded == ~(Len(product) > 0)

\* POST /seed
seed_data ==
    /\ req' = [op |-> "seed"]
    /\ IF ~SeedNeeded
       THEN /\ resp' = Ok([ok |-> TRUE, message |-> "Already seeded"])
            /\ UNCHANGED <<category, product, nextId>>
       ELSE /\ category' = insert_many(category, SeedCategories, nextId)
            /\ product' = insert_many(product, SeedProducts,
                                      nextId + Len(SeedCategories))
            /\ nextId' = nextId + Len(SeedCategories) + Len(SeedProducts)
            /\ resp' = Ok([ok |-> TRUE, inserted |-> Len(SeedProducts)])
    /\ UNCHANGED <<user, cartitem, order, pend>>

-----------------------------------------------------------------------------
(* list_products *)

\* The store's case-insensitive regex search for the patterns of the model:
\* the words a text holds, in lower case.
WordsOf(text) ==
    IF text = "Steel Mug" THEN {"steel", "mug"}
    ELSE IF text = "Gift Card" THEN {"gift", "card"}
    ELSE IF text = SeedDescription THEN {"card", "fintech"}
    ELSE IF \E i \in 1..SeedCount : text = SeedTitle(i) THEN {"premium", "card"}
    ELSE {}

LowerWord(q) == IF q = "CARD" THEN "card" ELSE q

\* {field: {"$regex": q, "$options": "i"}} on a document.
RegexMatches(doc, field, q) ==
    LET v == doc[field]
    IN  IF field = "description"
        THEN v # None /\ LowerWord(q) \in WordsOf(The(v))
        ELSE LowerWord(q) \in WordsOf(v)

\* The price range with an exclusive lower bound ($gt).
PriceRange_ExclusiveMin(min_price, max_price) ==
    (IF min_price # None THEN "$gte" :> The(min_price) + 1 ELSE <<>>)
    @@ (IF max_price # None THEN "$lte" :> The(max_price) ELSE <<>>)

\* main.py 141-147: the price range of the filter document.
PriceRange(min_price, max_price) ==
    (IF min_price # None THEN "$gte" :> The(min_price) ELSE <<>>)
    @@ (IF max_price # None THEN "$lte" :> The(max_price) ELSE <<>>)

\* main.py 133-147: the filter document.
BuildFilter(q, cat, min_price, max_price) ==
    (IF q # None /\ The(q) # ""
     THEN "$or" :> <<[field |-> "title", regex |-> The(q)],
                     [field |-> "description", regex |-> The(q)]>>
     ELSE <<>>)
    @@ (IF cat # None /\ The(cat) # "" THEN "category" :> The(cat) ELSE <<>>)
    @@ (IF min_price # None \/ max_price # None
        THEN "price" :> PriceRange(min_price, max_price) ELSE <<>>)

\* The store's evaluation of a filter document on one product.
ProductMatches(doc, filt) ==
    /\ "$or" \in DOMAIN filt =>
          \E c \in Range(filt["$or"]) : RegexMatches(doc, c.field, c.regex)
    /\ "category" \in DOMAIN filt => doc.category = filt["category"]
    /\ "price" \in DOMAIN filt =>
          LET pr == filt["price"]
          IN  /\ "$gte" \in DOMAIN pr => doc.price >= pr["$gte"]
              /\ "$lte" \in DOMAIN pr => doc.price <= pr["$lte"]

\* The sort value of a document: a missing field sorts as null, below numbers.
KeyOf(doc, key) == IF key \in DOMAIN doc THEN doc[key] ELSE -1

\* cursor.sort(key, direction): the position of every document is the number
\* of documents that sort before it; ties keep store order.
SortDocs(docs, key, direction) ==
    LET n == Len(docs)
        Keys == [i \in 1..n |-> direction * KeyOf(docs[i], key)]
        Pos(k) == [i \in 1..n |->
                     Cardinality({j \in 1..n :
                         k[j] < k[i] \/ (k[j] = k[i] /\ j <= i)})]
        Place(pos) == [r \in 1..n |-> docs[CHOOSE i \in 1..n : pos[i] = r]]
    IN  With(With(Keys, Pos), Place)

\* main.py 150-153: a sort string is its characters, "-" first when
\* descending, the field name after it.
ApplySort(docs, sort) ==
    IF sort = <<>> THEN docs
    ELSE LET direction == IF sort[1] = "-" THEN -1 ELSE 1
             key == IF sort[1] = "-" THEN Tail(sort) ELSE sort
         IN  SortDocs(docs, key[1], direction)

\* Paging with a 0-based page number: skip(page * limit).
SkipLimit_ZeroBased(docs, page, limit) ==
    LET skip == page * limit
        last == IF skip + limit < Len(docs) THEN skip + limit ELSE Len(docs)
    IN  SubSeq(docs, skip + 1, last)

\* main.py 155: cursor.skip((page - 1) * limit).limit(limit)
SkipLimit(docs, page, limit) ==
    LET skip == (page - 1) * limit
        last == IF skip + limit < Len(docs) THEN skip + limit ELSE Len(docs)
    IN  SubSeq(docs, skip + 1, last)

\* main.py 157: the page count.
PageCount(total, limit) == (total + limit - 1) \div limit

\* main.py 133-157: the answer of list_products on the current store.
ListProducts(p) ==
    LET filt == BuildFilter(p.q, p.category, p.min_price, p.max_price)
        Found == Filter(product, LAMBDA d : ProductMatches(d, filt))
        Answer(cursor) ==
            LET total == Len(cursor)
                paged == SkipLimit(cursor, p.page, p.limit)
            IN  [items |-> [i \in 1..Len(paged) |-> serialize_doc(paged[i])],
                 total |-> total, page |-> p.page,
                 pages |-> PageCount(total, p.limit)]
    IN  With(With(Found, LAMBDA docs : ApplySort(docs, p.sort)), Answer)

Queries == {None, Some("CARD")}

CategoryFilters == {None, Some("cards")}

MinPrices == {None, Some(50)}

MaxPrices == {None, Some(60)}

DefaultSort == <<"-", "created_at">>

Sorts == {DefaultSort, <<"price">>, <<"-", "price">>, <<>>}

Limits == {1, DefaultLimit, MaxLimit}

\* The requests of the model: every filter with every page size under the
\* default sort, and every sort on the unfiltered default page size.
ListIn ==
    {p \in [q : Queries, category : CategoryFilters, min_price : MinPrices,
            max_price : MaxPrices, sort : Sorts, page : 1..MaxPage,
            limit : Limits] :
        \/ p.sort = DefaultSort
        \/ /\ p.q = None /\ p.category = None
           /\ p.min_price = None /\ p.max_price = None
           /\ p.limit = DefaultLimit}

\* GET /products.  A listing changes nothing in the store, so a listing after
\* a listing reaches no store the first did not see: the action is taken from
\* the states another request left.
list_products(p) ==
    /\ req.op # "list_products"
    /\ req' = [op |-> "list_products", params |-> p]
    /\ resp' = Ok(ListProducts(p))
    /\ UNCHANGED <<user, category, product, cartitem, order, nextId, pend>>

\* GET /categories
list_categories ==
    /\ req' = [op |-> "list_categories"]
    /\ resp' = Ok([items |-> [i \in 1..Len(category) |->
                                serialize_doc(category[i])]])
    /\ UNCHANGED <<user, category, product, cartitem, order, nextId, pend>>

NextCatalog ==
    \/ \E prod \in ProductIn : create_product(prod)
    \/ seed_data
    \/ \E p \in ListIn : list_products(p)

NextSeed ==
    \/ \E prod \in ProductIn : create_product(prod)
    \/ \E cat \in CategoryIn : create_category(cat)
    \/ seed_data
    \/ list_categories

SpecSeed == Init /\ [][NextSeed]_vars

SpecCatalog == Init /\ [][NextCatalog]_vars

-----------------------------------------------------------------------------
(* Cart and orders *)

\* datetime.utcnow(): the clock does not advance in the model; every reading
\* is the same instant.
Now == 0

ClientIds == {"c1", "c2"}

\* schemas.CartItem: qty >= 1.
CartItemIsValid(item) == item.qty >= 1

\* Strings that are no ObjectId: the empty string and a malformed one.
BadIdStrings == {"", "abc"}

\* The product_id strings of the model: the bad ones, a well-formed one no
\* document has, and that of the first stored product.
ProductIdStrings ==
    BadIdStrings \cup {Hex(0)}
        \cup {Hex(product[i]._id) : i \in {j \in {1} : j <= Len(product)}}

\* The item id strings of the model, likewise.
ItemIdStrings ==
    {"abc", Hex(0)} \cup {Hex(d._id) : d \in Range(cartitem)}

\* The add_to_cart bodies of the model; the last one fails validation.
CartIn ==
    [client_id : ClientIds, product_id : ProductIdStrings, qty : {1}]
        \cup {[client_id |-> "c1", product_id |-> "abc", qty |-> 0]}

\* The add_to_cart bodies drawn where orders are placed.
OrderCartIn ==
    {item \in CartIn : item.product_id \notin {"", Hex(0)}}

\* The add_to_cart requests served so far: the ObjectIds handed out that went
\* to no other collection (only cart rows are ever deleted).
CartAdds ==
    (nextId - 1) - (Len(user) + Len(category) + Len(product) + Len(order))

\* POST /cart
add_to_cart(item) ==
    /\ req' = [op |-> "add_to_cart", payload |-> item]
    /\ IF ~CartItemIsValid(item)
       THEN /\ resp' = ValidationError
            /\ UNCHANGED <<cartitem, nextId>>
       ELSE /\ CartAdds < MaxCartAdds
            /\ cartitem' = insert_one(cartitem, item)
            /\ resp' = Ok([id |-> Hex(nextId)])
            /\ nextId' = nextId + 1
    /\ UNCHANGED <<user, category, product, order, pend>>

\* {"$set": {"qty": qty, "updated_at": now}} applied to one document.
SetQty(doc, qty, now) == [qty |-> qty, updated_at |-> now] @@ doc

\* The positions of the documents of coll whose _id is oid.
Matched(coll, oid) == {i \in 1..Len(coll) : coll[i]._id = oid}

\* PATCH /cart/{item_id}
update_cart(item_id, qty) ==
    /\ req' = [op |-> "update_cart", item_id |-> item_id, qty |-> qty]
    /\ IF ~IsValidObjectId(item_id)
       THEN /\ resp' = Unhandled("InvalidId")
            /\ UNCHANGED cartitem
       ELSE LET hit == Matched(cartitem, ParseObjectId(item_id))
            IN  /\ cartitem' = [i \in 1..Len(cartitem) |->
                                  IF i \in hit
                                  THEN SetQty(cartitem[i], qty, Now)
                                  ELSE cartitem[i]]
                /\ resp' = IF hit = {}
                           THEN HTTPException(404, "Cart item not found")
                           ELSE Ok([ok |-> TRUE])
    /\ UNCHANGED <<user, category, product, order, nextId, pend>>

\* DELETE /cart/{item_id}
remove_cart(item_id) ==
    /\ req' = [op |-> "remove_cart", item_id |-> item_id]
    /\ IF ~IsValidObjectId(item_id)
       THEN /\ resp' = Unhandled("InvalidId")
            /\ UNCHANGED cartitem
       ELSE /\ cartitem' = Filter(cartitem,
                                  LAMBDA d : d._id # ParseObjectId(item_id))
            /\ resp' = Ok([ok |-> TRUE])
    /\ UNCHANGED <<user, category, product, order, nextId, pend>>

\* main.py 202: the product of one cart row; None when product_id is empty
\* or names no product.  ObjectId(...) raises on a malformed product_id.
RowRaises(it) ==
    it.product_id # "" /\ ~IsValidObjectId(it.product_id)

RowProduct(it) ==
    IF it.product_id = "" THEN None
    ELSE find_one(product, [_id |-> ParseObjectId(it.product_id)])

\* main.py 203-205: one row of the answer.
CartRow(it) ==
    LET prod == RowProduct(it)
    IN  [product |-> IF prod = None THEN None
                     ELSE Some(serialize_doc(The(prod)))]
        @@ serialize_doc(it)

\* main.py 199-206: the answer of get_cart.
GetCart(client_id) ==
    LET items == Filter(cartitem, LAMBDA d : d.client_id = client_id)
    IN  IF \E i \in 1..Len(items) : RowRaises(items[i])
        THEN Unhandled("InvalidId")
        ELSE Ok([items |-> [i \in 1..Len(items) |-> CartRow(items[i])]])

\* GET /cart
get_cart(client_id) ==
    /\ req' = [op |-> "get_cart", client_id |-> client_id]
    /\ resp' = GetCart(client_id)
    /\ UNCHANGED <<user, category, product, cartitem, order, nextId, pend>>

\* The line items an order request may carry.
OrderLines ==
    {<<[client_id |-> "c1", product_id |-> "abc", qty |-> 2]>>,
     <<[client_id |-> "c1", product_id |-> Hex(0), qty |-> 0]>>}

OrderIn ==
    [client_id : {"c1"}, items : OrderLines, address : {"1 Main St"},
     shipping_method : {"standard"}, payment_method : {"card"},
     promo_code : {None}, subtotal : {10}, shipping : {5}, total : {999},
     status : {None, Some("paid")}]

\* schemas.Order: every line item is a valid CartItem.
OrderIsValid(body) ==
    \A i \in 1..Len(body.items) : CartItemIsValid(body.items[i])

\* schemas.Order with its default applied: status "pending" unless given.
Order(body) ==
    [body EXCEPT !.status = IF body.status = None THEN "pending"
                            ELSE The(body.status)]

\* create_order that also empties the client's cart.
OrderStored_ClearsCart(body) ==
    [order |-> insert_one(order, [created_at |-> Now] @@ Order(body)),
     cartitem |-> Filter(cartitem, LAMBDA d : d.client_id # body.client_id),
     product |-> product]

\* main.py 232-234: what create_order does to the collections.
OrderStored(body) ==
    [order |-> insert_one(order, [created_at |-> Now] @@ Order(body)),
     cartitem |-> cartitem, product |-> product]

\* POST /orders
create_order(body) ==
    /\ req' = [op |-> "create_order", payload |-> body]
    /\ IF ~OrderIsValid(body)
       THEN /\ resp' = ValidationError
            /\ UNCHANGED <<order, cartitem, product, nextId>>
       ELSE /\ Len(order) < MaxOrders
            /\ LET out == OrderStored(body)
               IN  /\ order' = out.order
                   /\ cartitem' = out.cartitem
                   /\ product' = out.product
            /\ resp' = Ok([id |-> Hex(nextId)])
            /\ nextId' = nextId + 1
    /\ UNCHANGED <<user, category, pend>>

NextCart ==
    \/ seed_data
    \/ \E item \in CartIn : add_to_cart(item)
    \/ \E item_id \in ItemIdStrings, qty \in {0, 2} : update_cart(item_id, qty)
    \/ \E item_id \in ItemIdStrings : remove_cart(item_id)
    \/ \E client_id \in ClientIds : get_cart(client_id)

NextOrder ==
    \/ seed_data
    \/ \E item \in OrderCartIn : add_to_cart(item)
    \/ \E body \in OrderIn : create_order(body)

SpecOrder == Init /\ [][NextOrder]_vars

SpecCart == Init /\ [][NextCart]_vars

-----------------------------------------------------------------------------
(* register under concurrently handled requests: each worker runs the      *)
(* handler's two store operations as separate steps.                       *)

\* The e-mail addresses EmailStr leaves as they are.
NormalEmails == {e \in Emails : EmailIsValid(e) /\ NormalizeEmail(e) = e}

RaceIn == [name : Names, email : NormalEmails, password : Passwords]

\* main.py 88-90 in worker w: find_one, then Conflict or go on.
register_find(w, payload) ==
    /\ pend[w].pc = "idle"
    /\ IF RegisterExisting(payload) # None
       THEN /\ req' = [op |-> "register", payload |-> payload]
            /\ resp' = HTTPException(400, "Email already registered")
            /\ UNCHANGED pend
       ELSE /\ pend' = [pend EXCEPT ![w] = [pc |-> "create", payload |-> payload]]
            /\ UNCHANGED <<req, resp>>
    /\ UNCHANGED <<user, category, product, cartitem, order, nextId>>

\* main.py 91-93 in worker w: the insert, whatever happened since the check.
register_insert(w) ==
    /\ pend[w].pc = "create"
    /\ Len(user) < MaxUsers
    /\ LET out == RegisterCreated(pend[w].payload)
       IN  /\ user' = out.user
           /\ nextId' = out.nextId
           /\ resp' = out.resp
    /\ req' = [op |-> "register", payload |-> pend[w].payload]
    /\ pend' = [pend EXCEPT ![w] = Idle]
    /\ UNCHANGED <<category, product, cartitem, order>>

NextRace ==
    \/ \E w \in Workers, payload \in RaceIn : register_find(w, payload)
    \/ \E w \in Workers : register_insert(w)

SpecRace == Init /\ [][NextRace]_vars

-----------------------------------------------------------------------------
(* The whole service, its requests handled one at a time.  The claims are  *)
(* checked under the specifications above, each the handlers of one area.  *)

Next == NextAuth \/ NextCatalog \/ NextSeed \/ NextCart \/ NextOrder

Spec == Init /\ [][Next]_vars

-----------------------------------------------------------------------------
(* Claims about register and login *)

\* The stored users whose e-mail is e.
UsersWithEmail(e) == {i \in 1..Len(user) : user[i].email = e}

\* C1: register with an e-mail some stored User has fails with 400 and
\* leaves the user collection unchanged; with an e-mail no stored User has
\* it succeeds and appends exactly one User with that e-mail, role "user"
\* and the password verbatim (so a second registration with the same
\* e-mail fails).
C1_RegisterConflictOrCreate ==
    [][req'.op = "register" =>
        LET p == req'.payload
        IN  IF UsersWithEmail(p.email) # {}
            THEN resp'.status = 400 /\ user' = user
            ELSE /\ resp'.status = 200
                 /\ Len(user') = Len(user) + 1
                 /\ SubSeq(user', 1, Len(user)) = user
                 /\ user'[Len(user')].email = p.email
                 /\ user'[Len(user')].role = "user"
                 /\ user'[Len(user')].password_hash = p.password]_vars

\* C2: no two stored User records have the same e-mail, whatever the
\* interleaving of the register requests' store operations.
C2_EmailUnique ==
    \A i, j \in 1..Len(user) : i # j => user[i].email # user[j].email

\* C3: login with the e-mail and password of a stored user answers the
\* identifier that user's registration returned (the string of its _id);
\* any other login fails with 401; login never changes the collection.
C3_LoginReturnsRegisteredId ==
    [][req'.op = "login" =>
        LET p == req'.payload
            match == {i \in 1..Len(user) :
                        /\ user[i].email = p.email
                        /\ user[i].password_hash = p.password}
        IN  /\ user' = user
            /\ IF match = {}
               THEN resp'.status = 401
               ELSE /\ resp'.status = 200
                    /\ \A i \in match : resp'.body.id = Hex(user[i]._id)]_vars

-----------------------------------------------------------------------------
(* Claims about the catalog *)

\* The price condition of a listing request, stated on one product.
InPriceRange(d, p) ==
    /\ p.min_price # None => d.price >= The(p.min_price)
    /\ p.max_price # None => d.price <= The(p.max_price)

\* The text and category conditions of a listing request.
OtherFilters(d, p) ==
    /\ p.category # None => d.category = The(p.category)
    /\ p.q # None =>
          \/ RegexMatches(d, "title", The(p.q))
          \/ RegexMatches(d, "description", The(p.q))

\* The identifiers of the stored products a listing request asks for.
Wanted(p) ==
    {Hex(product[i]._id) : i \in {j \in 1..Len(product) :
        InPriceRange(product[j], p) /\ OtherFilters(product[j], p)}}

\* The answers to request p for pages 1..n.
PagesOf(p, n) == [k \in 1..n |-> ListProducts([p EXCEPT !.page = k]).items]

RECURSIVE SumLen(_, _)
SumLen(pages, n) == IF n = 0 THEN 0 ELSE Len(pages[n]) + SumLen(pages, n - 1)

\* C4: after a listing, total is the number of products matching the filter,
\* pages is ceil(total / limit), the pages 1..pages hold total items in all,
\* every page before the last holds limit items, and a page beyond is empty.
C4_Pagination ==
    req.op = "list_products" =>
        LET p == req.params
            b == resp.body
        IN  /\ b.total = Cardinality(Wanted(p))
            /\ b.pages * p.limit >= b.total
            /\ (b.pages - 1) * p.limit < b.total
            /\ \A pages \in {PagesOf(p, b.pages + 1)} :
                  /\ SumLen(pages, b.pages) = b.total
                  /\ \A n \in 1..(b.pages - 1) : Len(pages[n]) = p.limit
                  /\ pages[b.pages + 1] = <<>>
                  /\ p.page <= b.pages + 1 => b.items = pages[p.page]
                  /\ p.page > b.pages => b.items = <<>>

\* A listing of two or more pages whose last page is not full, answered
\* for that last page.
C4_Witness ==
    /\ req.op = "list_products"
    /\ resp.body.pages >= 2
    /\ req.params.page = resp.body.pages
    /\ Len(resp.body.items) > 0
    /\ Len(resp.body.items) < req.params.limit

\* C8: the products a listing counts and pages are exactly those whose price
\* is >= min_price when it is given and <= max_price when it is given (both
\* inclusive), among the products the other filters keep.
C8_PriceFilter ==
    req.op = "list_products" =>
        LET p == req.params
            b == resp.body
            kept == {i \in 1..Len(product) : OtherFilters(product[i], p)}
            inRange == {i \in kept : InPriceRange(product[i], p)}
        IN  /\ b.total = Cardinality(inRange)
            /\ \A k \in 1..Len(b.items) :
                  /\ InPriceRange(b.items[k], p)
                  /\ \E i \in inRange : b.items[k].id = Hex(product[i]._id)
            /\ \A pages \in {PagesOf(p, b.pages)} :
                  UNION {{pages[n][k].id : k \in 1..Len(pages[n])} :
                            n \in 1..b.pages}
                      = {Hex(product[i]._id) : i \in inRange}

\* A listing with min_price 50 and max_price 60 that returns products priced
\* 50 and 60 while the store holds cheaper and dearer ones.
C8_Witness ==
    /\ req.op = "list_products"
    /\ req.params.min_price = Some(50) /\ req.params.max_price = Some(60)
    /\ \E k \in 1..Len(resp.body.items) : resp.body.items[k].price = 50
    /\ \E k \in 1..Len(resp.body.items) : resp.body.items[k].price = 60
    /\ \E i \in 1..Len(product) : product[i].price < 50
    /\ \E i \in 1..Len(product) : product[i].price > 60

\* How many stored products carry the title of seed product i.
BatchCount(i) ==
    Cardinality({j \in 1..Len(product) : product[j].title = SeedTitle(i)})

\* How many stored categories carry the slug of seed category k.
SeedCategoryCount(k) ==
    Cardinality({j \in 1..Len(category) :
                    category[j].slug = SeedCategories[k].slug})

\* Nothing but seeding has written to the catalog.
OnlySeeded ==
    /\ \A j \in 1..Len(product) :
          \E i \in 1..SeedCount : product[j].title = SeedTitle(i)
    /\ \A j \in 1..Len(category) :
          \E k \in 1..Len(SeedCategories) :
              category[j].slug = SeedCategories[k].slug

\* C7: seed on a store that holds a product inserts nothing and answers
\* "Already seeded"; no seed product or seed category is ever stored twice,
\* and after seed calls alone on the empty store there are exactly the 24
\* products and the 3 categories of one batch.
C7_SeedOnce ==
    /\ [](/\ \A i \in 1..SeedCount : BatchCount(i) <= 1
          /\ \A k \in 1..Len(SeedCategories) : SeedCategoryCount(k) <= 1
          /\ (req.op = "seed" /\ OnlySeeded) =>
                /\ Len(product) = SeedCount
                /\ Len(category) = Len(SeedCategories))
    /\ [][(req'.op = "seed" /\ Len(product) > 0) =>
            /\ product' = product
            /\ category' = category
            /\ resp'.body = [ok |-> TRUE, message |-> "Already seeded"]]_vars

\* A second seed call, answered "Already seeded", on the store the first left.
C7_Witness ==
    /\ req.op = "seed"
    /\ resp.body = [ok |-> TRUE, message |-> "Already seeded"]
    /\ OnlySeeded
    /\ Len(product) = SeedCount
    /\ Len(category) = Len(SeedCategories)

-----------------------------------------------------------------------------
(* Claims about the cart and orders *)

\* The product a cart row refers to: None when its product_id is no ObjectId
\* string or names no stored product.
Referred(it) ==
    IF ~IsValidObjectId(it.product_id) THEN None
    ELSE {serialize_doc(product[j]) :
            j \in {k \in 1..Len(product) :
                     Hex(product[k]._id) = it.product_id}}

\* C5: get_cart answers every row of the client, with product null for a row
\* whose product_id is unparsable or names no stored product and the
\* resolved product otherwise; it never fails on a bad product reference.
C5_GetCartNullProduct ==
    req.op = "get_cart" =>
        LET mine == Filter(cartitem, LAMBDA d : d.client_id = req.client_id)
        IN  /\ resp.status = 200
            /\ Len(resp.body.items) = Len(mine)
            /\ \A i \in 1..Len(mine) :
                  /\ resp.body.items[i].id = Hex(mine[i]._id)
                  /\ resp.body.items[i].product = Referred(mine[i])

\* C6: for an item id no stored CartItem has, update_cart answers 404 and
\* remove_cart answers success, and both leave the collection as it was.
C6_MissingItem ==
    [][(req'.op \in {"update_cart", "remove_cart"}
        /\ \A i \in 1..Len(cartitem) : Hex(cartitem[i]._id) # req'.item_id) =>
            /\ cartitem' = cartitem
            /\ req'.op = "update_cart" => resp'.status = 404
            /\ req'.op = "remove_cart" => resp' = Ok([ok |-> TRUE])]_vars

\* C10: every stored CartItem has quantity >= 1.
C10_QtyAtLeastOne ==
    \A i \in 1..Len(cartitem) : cartitem[i].qty >= 1

\* C9: create_order appends exactly one Order holding the supplied client,
\* line items and totals, status "pending" unless supplied and the server's
\* time, and leaves the cart rows and the products as they were.
C9_OrderFrame ==
    [][(req'.op = "create_order" /\ OrderIsValid(req'.payload)) =>
        LET b == req'.payload
            o == order'[Len(order')]
        IN  /\ resp'.status = 200
            /\ Len(order') = Len(order) + 1
            /\ SubSeq(order', 1, Len(order)) = order
            /\ o.client_id = b.client_id /\ o.items = b.items
            /\ o.subtotal = b.subtotal /\ o.shipping = b.shipping
            /\ o.total = b.total
            /\ o.status = IF b.status = None THEN "pending" ELSE The(b.status)
            /\ o.created_at = Now
            /\ cartitem' = cartitem
            /\ product' = product]_vars

\* An order just placed by a client who has a cart row for a stored product.
C9_Witness ==
    /\ req.op = "create_order"
    /\ resp.status = 200
    /\ Len(order) >= 1
    /\ order[Len(order)].status = "pending"
    /\ \E i \in 1..Len(cartitem) :
          /\ cartitem[i].client_id = req.payload.client_id
          /\ \E j \in 1..Len(product) :
                Hex(product[j]._id) = cartitem[i].product_id

=============================================================================
